---- MODULE Spec2Model ----
(***************************************************************************)
(* saori-interface-rs: the SAORI request decoder (src/src/request.rs) and  *)
(* the SAORI response builder (src/src/response.rs).                       *)
(*                                                                         *)
(* Representation.  A Rust `&[u8]` / `Vec<u8>` is a sequence of integers   *)
(* 0..255, a `Vec<i8>` a sequence of integers -128..127, and a `str` /     *)
(* `String` a sequence of Unicode scalar values (integers).  Option<T> is  *)
(* the empty sequence (None) or a one-element sequence (Some).  A Rust     *)
(* enum variant is the string of its name.                                 *)
(***************************************************************************)
EXTENDS Integers, Sequences, FiniteSets

VARIABLES bytes, request, response, last, output

vars == <<bytes, request, response, last, output>>

(***************************************************************************)
(* Text literals                                                           *)
(***************************************************************************)

\* The printable ASCII characters U+0020 .. U+005F, in code order.
PrintableLow == " !\"#$%&'()*+,-./0123456789:;<=>?@ABCDEFGHIJKLMNOPQRSTUVWXYZ[\\]^_"

\* The printable ASCII characters U+0061 .. U+007E, in code order.
PrintableHigh == "abcdefghijklmnopqrstuvwxyz{|}~"

\* The scalar value of a one-character literal.
Ord(c) ==
    IF c = "\r" THEN 13
    ELSE IF c = "\n" THEN 10
    ELSE IF \E i \in 1..Len(PrintableLow) : SubSeq(PrintableLow, i, i) = c
    THEN 31 + (CHOOSE i \in 1..Len(PrintableLow) : SubSeq(PrintableLow, i, i) = c)
    ELSE 96 + (CHOOSE i \in 1..Len(PrintableHigh) : SubSeq(PrintableHigh, i, i) = c)

\* A Rust string literal as a sequence of scalar values.
Str(s) == [i \in 1..Len(s) |-> Ord(SubSeq(s, i, i))] \o <<>>

\* "\0", which a TLA+ string literal cannot hold.
NUL == <<0>>

CRLF == Str("\r\n")
LF == Str("\n")
CR == Ord("\r")
SPACE == Str(" ")
COLON_SPACE == Str(": ")
DIGIT_0 == Ord("0")
DIGIT_9 == Ord("9")
PLUS == Ord("+")

SAORI_PREFIX_CHARSET == Str("Charset: ")
SAORI_COMMAND_GET_VERSION == Str("GET Version ")
SAORI_COMMAND_EXECUTE == Str("EXECUTE ")
SAORI_PREFIX_SECULITY_LEVEL == Str("SecurityLevel: ")
SAORI_PREFIX_ARGUMENT == Str("Argument")
SAORI_PREFIX_SENDER == Str("Sender: ")

(***************************************************************************)
(* Option and Result                                                       *)
(***************************************************************************)

None == <<>>
Some(v) == <<v>>
IsSome(o) == o # <<>>
Unwrap(o) == o[1]

Ok(v) == [ok |-> TRUE, val |-> Some(v), err |-> None]
Err(kind, detail) == [ok |-> FALSE, val |-> None, err |-> Some(<<kind, detail>>)]

(***************************************************************************)
(* str primitives of the Rust standard library, as the decoder uses them   *)
(***************************************************************************)

\* The suffix of s from position i (1-based) on.
From(s, i) == SubSeq(s, i, Len(s))

\* str::starts_with
StartsWith(s, p) == Len(s) >= Len(p) /\ SubSeq(s, 1, Len(p)) = p

\* str::strip_prefix
strip_prefix(s, p) == IF StartsWith(s, p) THEN Some(From(s, Len(p) + 1)) ELSE None

\* The least element of a non-empty set of integers.
Min(S) == CHOOSE x \in S : \A y \in S : x <= y

\* The least position >= i at which p occurs in s, or 0.
FindFrom(s, p, i) ==
    LET at == {k \in i..(Len(s) - Len(p) + 1) : SubSeq(s, k, k + Len(p) - 1) = p}
    IN  IF at = {} THEN 0 ELSE Min(at)

\* str::split_once: the parts before and after the first occurrence of p.
split_once(s, p) ==
    LET k == FindFrom(s, p, 1)
    IN  IF k = 0 THEN None ELSE Some(<<SubSeq(s, 1, k - 1), From(s, k + Len(p))>>)

\* str::lines: the text is cut after every "\n"; a piece loses its final "\n"
\* and then, only if it had one, a final "\r"; no piece follows the last "\n".
RECURSIVE lines(_)
lines(s) ==
    IF s = <<>> THEN <<>>
    ELSE LET k == FindFrom(s, LF, 1)
         IN  IF k = 0 THEN <<s>>
             ELSE LET l == SubSeq(s, 1, k - 1)
                      line == IF l # <<>> /\ l[Len(l)] = CR
                              THEN SubSeq(l, 1, Len(l) - 1) ELSE l
                  IN  <<line>> \o lines(From(s, k + 1))

IsDigit(c) == c >= DIGIT_0 /\ c <= DIGIT_9

\* The value of a sequence of ASCII digits.
RECURSIVE DigitsValue(_)
DigitsValue(d) ==
    IF d = <<>> THEN 0
    ELSE 10 * DigitsValue(SubSeq(d, 1, Len(d) - 1)) + (d[Len(d)] - DIGIT_0)

\* d without its leading zeros.
RECURSIVE Significant(_)
Significant(d) == IF d # <<>> /\ d[1] = DIGIT_0 THEN Significant(From(d, 2)) ELSE d

\* usize::MAX of a 64-bit target, in decimal.
USIZE_MAX == Str("18446744073709551615")

\* a <= b for two digit sequences of the same length.
RECURSIVE DigitsLeq(_, _)
DigitsLeq(a, b) ==
    IF a = <<>> THEN TRUE
    ELSE IF a[1] # b[1] THEN a[1] < b[1]
    ELSE DigitsLeq(From(a, 2), From(b, 2))

\* Whether the digit sequence d is a value a usize holds.
FitsUsize(d) ==
    LET sig == Significant(d)
    IN  \/ Len(sig) < Len(USIZE_MAX)
        \/ Len(sig) = Len(USIZE_MAX) /\ DigitsLeq(sig, USIZE_MAX)

\* str::parse::<usize>: an optional "+", then one or more ASCII digits whose
\* value fits a usize.  Some(index) or None (the ParseIntError).
parse_usize(s) ==
    LET d == IF s # <<>> /\ s[1] = PLUS THEN From(s, 2) ELSE s
    IN  IF d = <<>> THEN None
        ELSE IF \E i \in 1..Len(d) : ~IsDigit(d[i]) THEN None
        ELSE IF ~FitsUsize(d) THEN None
        ELSE Some(DigitsValue(Significant(d)))

\* usize / u16 Display: the decimal digits of n.
RECURSIVE to_decimal(_)
to_decimal(n) ==
    IF n < 10 THEN <<DIGIT_0 + n>>
    ELSE to_decimal(n \div 10) \o <<DIGIT_0 + (n % 10)>>

(***************************************************************************)
(* The codecs behind SaoriCharset::to_encoding (crate encoding_rs), as far *)
(* as request.rs uses them: from_utf8_lossy and Encoding::decode           *)
(***************************************************************************)

\* U+FFFD, which a lossy or failed decoding puts for a malformed sequence
REPLACEMENT_CHARACTER == 65533

IsCont(b, i) == i <= Len(b) /\ b[i] >= 128 /\ b[i] <= 191

\* One step of a UTF-8 decoder at position i of b:
\* <<scalar value, bytes consumed, well-formed>>.  A malformed sequence is
\* its maximal prefix of a well-formed one and yields U+FFFD.
Utf8Step(b, i) ==
    LET b0 == b[i]
        bad(n) == <<REPLACEMENT_CHARACTER, n, FALSE>>
        In(j, lo, hi) == j <= Len(b) /\ b[j] >= lo /\ b[j] <= hi
    IN  IF b0 < 128 THEN <<b0, 1, TRUE>>
        ELSE IF b0 >= 194 /\ b0 <= 223 THEN
            IF IsCont(b, i + 1)
            THEN <<(b0 - 192) * 64 + (b[i + 1] - 128), 2, TRUE>>
            ELSE bad(1)
        ELSE IF b0 >= 224 /\ b0 <= 239 THEN
            LET lo == IF b0 = 224 THEN 160 ELSE 128
                hi == IF b0 = 237 THEN 159 ELSE 191
            IN  IF ~In(i + 1, lo, hi) THEN bad(1)
                ELSE IF ~IsCont(b, i + 2) THEN bad(2)
                ELSE <<(b0 - 224) * 4096 + (b[i + 1] - 128) * 64 + (b[i + 2] - 128),
                       3, TRUE>>
        ELSE IF b0 >= 240 /\ b0 <= 244 THEN
            LET lo == IF b0 = 240 THEN 144 ELSE 128
                hi == IF b0 = 244 THEN 143 ELSE 191
            IN  IF ~In(i + 1, lo, hi) THEN bad(1)
                ELSE IF ~IsCont(b, i + 2) THEN bad(2)
                ELSE IF ~IsCont(b, i + 3) THEN bad(3)
                ELSE <<(b0 - 240) * 262144 + (b[i + 1] - 128) * 4096
                         + (b[i + 2] - 128) * 64 + (b[i + 3] - 128), 4, TRUE>>
        ELSE bad(1)

\* The part of the JIS X 0208 index the model carries: pointer 283 (row 4,
\* cell 2) is U+3042, HIRAGANA LETTER A.  Every other pointer is unmapped.
Jis0208(pointer) == IF pointer = 283 THEN Some(12354) ELSE None

\* One step of the Shift_JIS decoder.
ShiftJisStep(b, i) ==
    LET b0 == b[i]
        bad(n) == <<REPLACEMENT_CHARACTER, n, FALSE>>
    IN  IF b0 <= 128 THEN <<b0, 1, TRUE>>
        ELSE IF b0 >= 161 /\ b0 <= 223 THEN <<65377 - 161 + b0, 1, TRUE>>
        ELSE IF (b0 >= 129 /\ b0 <= 159) \/ (b0 >= 224 /\ b0 <= 252) THEN
            IF i + 1 > Len(b) THEN bad(1)
            ELSE LET t == b[i + 1]
                     offset == IF t < 127 THEN 64 ELSE 65
                     leadOffset == IF b0 < 160 THEN 129 ELSE 193
                     cp == IF (t >= 64 /\ t <= 126) \/ (t >= 128 /\ t <= 252)
                           THEN Jis0208((b0 - leadOffset) * 188 + t - offset)
                           ELSE None
                 IN  IF IsSome(cp) THEN <<Unwrap(cp), 2, TRUE>>
                     ELSE IF t < 128 THEN bad(1) ELSE bad(2)
        ELSE bad(1)

\* One step of the EUC-JP decoder (the JIS X 0212 plane is not carried).
EucJpStep(b, i) ==
    LET b0 == b[i]
        bad(n) == <<REPLACEMENT_CHARACTER, n, FALSE>>
    IN  IF b0 < 128 THEN <<b0, 1, TRUE>>
        ELSE IF b0 = 142 \/ b0 = 143 \/ (b0 >= 161 /\ b0 <= 254) THEN
            IF i + 1 > Len(b) THEN bad(1)
            ELSE LET t == b[i + 1]
                 IN  IF b0 = 142 /\ t >= 161 /\ t <= 223
                     THEN <<65377 - 161 + t, 2, TRUE>>
                     ELSE LET cp == IF b0 >= 161 /\ t >= 161 /\ t <= 254
                                    THEN Jis0208((b0 - 161) * 94 + t - 161)
                                    ELSE None
                          IN  IF IsSome(cp) THEN <<Unwrap(cp), 2, TRUE>>
                              ELSE IF t < 128 THEN bad(1) ELSE bad(2)
        ELSE bad(1)

\* SaoriCharset::to_encoding, as the decoder step of a stateless encoding.
DecodeStep(charset, b, i) ==
    CASE charset = "ShiftJIS" -> ShiftJisStep(b, i)
      [] charset = "EucJP" -> EucJpStep(b, i)
      [] charset = "UTF8" -> Utf8Step(b, i)

\* The bytes every decoder maps to themselves in its initial state: a run of
\* such bytes is decoded as one piece.
IsPlain(byte) == byte < 128 /\ byte # 14 /\ byte # 15 /\ byte # 27

\* Decoding from position i on: [text, has_error].
RECURSIVE DecodeFrom(_, _, _)
DecodeFrom(charset, b, i) ==
    LET special == {j \in i..Len(b) : ~IsPlain(b[j])}
    IN  IF special = {} THEN [text |-> From(b, i), has_error |-> FALSE]
        ELSE LET k == Min(special)
                 st == DecodeStep(charset, b, k)
                 rest == DecodeFrom(charset, b, k + st[2])
             IN  [text |-> SubSeq(b, i, k - 1) \o <<st[1]>> \o rest.text,
                  has_error |-> ~st[3] \/ rest.has_error]

\* The state an ISO-2022-JP escape sequence ESC x y selects, or None.
Iso2022JpEscape(x, y) ==
    IF x = 40 /\ y = 66 THEN Some("ASCII")
    ELSE IF x = 40 /\ y = 74 THEN Some("Roman")
    ELSE IF x = 40 /\ y = 73 THEN Some("Katakana")
    ELSE IF x = 36 /\ (y = 64 \/ y = 66) THEN Some("LeadByte")
    ELSE None

\* The ISO-2022-JP decoder from position i on, in the given state; flag is
\* its output flag (an escape sequence that follows another one with no
\* output between them is an error).  [text, has_error]
RECURSIVE Iso2022JpFrom(_, _, _, _)
Iso2022JpFrom(b, i, state, flag) ==
    LET bad(n, st, fl) ==
            LET rest == Iso2022JpFrom(b, i + n, st, fl)
            IN  [text |-> <<REPLACEMENT_CHARACTER>> \o rest.text, has_error |-> TRUE]
        out(cp, n, st) ==
            LET rest == Iso2022JpFrom(b, i + n, st, FALSE)
            IN  [text |-> <<cp>> \o rest.text, has_error |-> rest.has_error]
        escape ==
            LET to == IF i + 2 <= Len(b) THEN Iso2022JpEscape(b[i + 1], b[i + 2])
                      ELSE None
            IN  IF ~IsSome(to) THEN bad(1, state, FALSE)
                ELSE IF flag THEN bad(3, Unwrap(to), TRUE)
                ELSE Iso2022JpFrom(b, i + 3, Unwrap(to), TRUE)
    IN  IF i > Len(b) THEN [text |-> <<>>, has_error |-> FALSE]
        ELSE IF b[i] = 27 THEN escape
        ELSE IF state = "ASCII" THEN
            IF ~IsPlain(b[i]) THEN bad(1, state, FALSE)
            ELSE LET special == {j \in i..Len(b) : ~IsPlain(b[j])}
                     k == IF special = {} THEN Len(b) + 1 ELSE Min(special)
                     rest == Iso2022JpFrom(b, k, state, FALSE)
                 IN  [text |-> SubSeq(b, i, k - 1) \o rest.text,
                      has_error |-> rest.has_error]
        ELSE IF state = "Roman" THEN
            IF ~IsPlain(b[i]) THEN bad(1, state, FALSE)
            ELSE out(IF b[i] = 92 THEN 165 ELSE IF b[i] = 126 THEN 8254 ELSE b[i],
                     1, state)
        ELSE IF state = "Katakana" THEN
            IF b[i] >= 33 /\ b[i] <= 95 THEN out(65377 - 33 + b[i], 1, state)
            ELSE bad(1, state, FALSE)
        ELSE \* LeadByte
            IF b[i] < 33 \/ b[i] > 126 THEN bad(1, state, FALSE)
            ELSE IF i + 1 > Len(b) THEN bad(1, state, FALSE)
            ELSE IF b[i + 1] = 27 THEN bad(1, state, FALSE)
            ELSE IF b[i + 1] < 33 \/ b[i + 1] > 126 THEN bad(2, state, FALSE)
            ELSE LET cp == Jis0208((b[i] - 33) * 94 + b[i + 1] - 33)
                 IN  IF IsSome(cp) THEN out(Unwrap(cp), 2, state)
                     ELSE bad(2, state, FALSE)

\* The UTF-8 byte order mark.
UTF8_BOM == <<239, 187, 191>>

\* Encoding::decode: a leading UTF-8 byte order mark is removed and makes the
\* text be decoded as UTF-8 whatever the encoding; malformed sequences become
\* U+FFFD and set has_error.  (The UTF-16 byte order marks are not carried.)
decode(charset, b) ==
    IF StartsWith(b, UTF8_BOM)
    THEN DecodeFrom("UTF8", b, Len(UTF8_BOM) + 1)
    ELSE IF charset = "ISO2022JP" THEN Iso2022JpFrom(b, 1, "ASCII", FALSE)
    ELSE DecodeFrom(charset, b, 1)

\* String::from_utf8_lossy
from_utf8_lossy(b) == DecodeFrom("UTF8", b, 1).text

(***************************************************************************)
(* request.rs                                                              *)
(***************************************************************************)

\* enum SaoriCharset, in declaration order
SaoriCharset == <<"ShiftJIS", "EucJP", "UTF8", "ISO2022JP">>

\* SaoriCharset::to_str, as a table
CharsetStr ==
    [charset \in {"ShiftJIS", "EucJP", "UTF8", "ISO2022JP"} |->
        CASE charset = "ShiftJIS" -> Str("Shift_JIS")
          [] charset = "EucJP" -> Str("EUC-JP")
          [] charset = "UTF8" -> Str("UTF-8")
          [] charset = "ISO2022JP" -> Str("ISO-2022-JP")]

\* SaoriCharset::to_str
charset_to_str(charset) == CharsetStr[charset]

\* SaoriVersion::to_str, as a table
VersionStr == [version \in {"V1_0"} |-> Str("SAORI/1.0")]

\* SaoriVersion::to_str
version_to_str(version) == VersionStr[version]

\* SaoriSecurityLevel::to_str, as a table
SecurityLevelStr ==
    [level \in {"Local", "External"} |->
        CASE level = "Local" -> Str("Local")
          [] level = "External" -> Str("External")]

\* SaoriSecurityLevel::to_str
security_level_to_str(level) == SecurityLevelStr[level]

\* impl TryFrom<&str> for SaoriCharset
charset_try_from(value) ==
    IF value = charset_to_str("ShiftJIS") THEN Ok("ShiftJIS")
    ELSE IF value = charset_to_str("EucJP") THEN Ok("EucJP")
    ELSE IF value = charset_to_str("UTF8") THEN Ok("UTF8")
    ELSE IF value = charset_to_str("ISO2022JP") THEN Ok("ISO2022JP")
    ELSE Err("Charset", "UnsupportedCharset")

\* The last line with the prefix instead of the first.
RECURSIVE find_map_strip_prefix_last(_, _)
find_map_strip_prefix_last(ls, prefix) ==
    IF ls = <<>> THEN None
    ELSE LET r == strip_prefix(ls[Len(ls)], prefix)
         IN  IF IsSome(r) THEN r
             ELSE find_map_strip_prefix_last(SubSeq(ls, 1, Len(ls) - 1), prefix)

\* Iterator::find_map(|v| v.strip_prefix(prefix)) over a sequence of lines
RECURSIVE find_map_strip_prefix(_, _)
find_map_strip_prefix(ls, prefix) ==
    IF ls = <<>> THEN None
    ELSE LET r == strip_prefix(ls[1], prefix)
         IN  IF IsSome(r) THEN r ELSE find_map_strip_prefix(Tail(ls), prefix)

\* SaoriRequest::read_contents_and_charset
read_contents_and_charset(b) ==
    LET temp_string == from_utf8_lossy(b)
        temp_lines == lines(temp_string)
        body == find_map_strip_prefix(temp_lines, SAORI_PREFIX_CHARSET)
        charset == IF IsSome(body) THEN charset_try_from(Unwrap(body))
                   ELSE Ok("ShiftJIS")
    IN  IF ~charset.ok THEN charset
        ELSE LET d == decode(Unwrap(charset.val), b)
             IN  IF d.has_error THEN Err("Charset", "DecodeFailed")
                 ELSE Ok([contents |-> d.text, charset |-> Unwrap(charset.val)])

\* parse_version_and_command testing the version with starts_with instead
\* of equality.
parse_version_and_command_by_prefix(line) ==
    IF ~IsSome(line) THEN Err("VersionLine", "EmptyRequest")
    ELSE LET l == Unwrap(line)
             get == strip_prefix(l, SAORI_COMMAND_GET_VERSION)
             exe == strip_prefix(l, SAORI_COMMAND_EXECUTE)
         IN  IF ~IsSome(get) /\ ~IsSome(exe) THEN Err("VersionLine", "NoCommand")
             ELSE LET command == IF IsSome(get) THEN "GetVersion" ELSE "Execute"
                      remain == IF IsSome(get) THEN Unwrap(get) ELSE Unwrap(exe)
                  IN  IF StartsWith(remain, version_to_str("V1_0"))
                      THEN Ok([command |-> command, version |-> "V1_0"])
                      ELSE Err("VersionLine", "NoVersion")

\* SaoriRequest::parse_version_and_command; line is an Option<&str>
parse_version_and_command(line) ==
    IF ~IsSome(line) THEN Err("VersionLine", "EmptyRequest")
    ELSE LET l == Unwrap(line)
             get == strip_prefix(l, SAORI_COMMAND_GET_VERSION)
             exe == strip_prefix(l, SAORI_COMMAND_EXECUTE)
         IN  IF ~IsSome(get) /\ ~IsSome(exe) THEN Err("VersionLine", "NoCommand")
             ELSE LET command == IF IsSome(get) THEN "GetVersion" ELSE "Execute"
                      remain == IF IsSome(get) THEN Unwrap(get) ELSE Unwrap(exe)
                  IN  IF remain = version_to_str("V1_0")
                      THEN Ok([command |-> command, version |-> "V1_0"])
                      ELSE Err("VersionLine", "NoVersion")

\* parse_security_level with `_ => None` for the arm `_ => return`.
parse_security_level_clearing(line, security_level) ==
    LET body == strip_prefix(line, SAORI_PREFIX_SECULITY_LEVEL)
    IN  IF ~IsSome(body) THEN security_level
        ELSE IF Unwrap(body) = security_level_to_str("Local") THEN Some("Local")
        ELSE IF Unwrap(body) = security_level_to_str("External") THEN Some("External")
        ELSE None

\* SaoriRequest::parse_security_level: the new value of *security_level
parse_security_level(line, security_level) ==
    LET body == strip_prefix(line, SAORI_PREFIX_SECULITY_LEVEL)
    IN  IF ~IsSome(body) THEN security_level
        ELSE IF Unwrap(body) = security_level_to_str("Local") THEN Some("Local")
        ELSE IF Unwrap(body) = security_level_to_str("External") THEN Some("External")
        ELSE security_level

\* pad_and_store keeping a value already stored at the index.
pad_and_store_first_wins(v, index, value) ==
    [i \in 1..(IF Len(v) <= index THEN index + 1 ELSE Len(v)) |->
        IF i <= Len(v) /\ v[i] # <<>> THEN v[i]
        ELSE IF i = index + 1 THEN value
        ELSE <<>>]

\* `while v.len() <= index { v.push(String::new()) }; v[index] = value`
pad_and_store(v, index, value) ==
    [i \in 1..(IF Len(v) <= index THEN index + 1 ELSE Len(v)) |->
        IF i = index + 1 THEN value
        ELSE IF i <= Len(v) THEN v[i]
        ELSE <<>>]

\* parse_arguments skipping a line it cannot split or whose index it cannot
\* parse (`if let` in place of `ok_or(..)?` and `map_err(..)?`).
parse_arguments_skipping(line, arguments) ==
    LET contents == strip_prefix(line, SAORI_PREFIX_ARGUMENT)
    IN  IF ~IsSome(contents) THEN Ok(arguments)
        ELSE LET parts == split_once(Unwrap(contents), COLON_SPACE)
             IN  IF ~IsSome(parts) THEN Ok(arguments)
                 ELSE LET index == parse_usize(Unwrap(parts)[1])
                      IN  IF ~IsSome(index) THEN Ok(arguments)
                          ELSE Ok(pad_and_store(arguments, Unwrap(index),
                                                Unwrap(parts)[2]))

\* SaoriRequest::parse_arguments: Ok(the new value of *arguments) or Err
parse_arguments(line, arguments) ==
    LET contents == strip_prefix(line, SAORI_PREFIX_ARGUMENT)
    IN  IF ~IsSome(contents) THEN Ok(arguments)
        ELSE LET parts == split_once(Unwrap(contents), COLON_SPACE)
             IN  IF ~IsSome(parts) THEN Err("Argument", "InvalidSeparator")
                 ELSE LET index == parse_usize(Unwrap(parts)[1])
                      IN  IF ~IsSome(index) THEN Err("Argument", "NoIndex")
                          ELSE Ok(pad_and_store(arguments, Unwrap(index),
                                                Unwrap(parts)[2]))

\* parse_sender taking the value of any "name: value" line
\* (`line.split_once(": ")` for `line.strip_prefix(SAORI_PREFIX_SENDER)`).
parse_sender_any_header(line, sender) ==
    LET parts == split_once(line, COLON_SPACE)
    IN  IF IsSome(parts) THEN Some(Unwrap(parts)[2]) ELSE sender

\* SaoriRequest::parse_sender: the new value of *sender
parse_sender(line, sender) ==
    LET body == strip_prefix(line, SAORI_PREFIX_SENDER)
    IN  IF IsSome(body) THEN Some(Unwrap(body)) ELSE sender

\* The `for line in lines` loop of SaoriRequest::new from line i on:
\* Ok([security_level, arguments, sender]) or the first error.
RECURSIVE parse_lines(_, _, _, _, _)
parse_lines(ls, i, security_level, arguments, sender) ==
    IF i > Len(ls)
    THEN Ok([security_level |-> security_level, arguments |-> arguments,
             sender |-> sender])
    ELSE LET a == parse_arguments(ls[i], arguments)
         IN  IF ~a.ok THEN a
             ELSE parse_lines(ls, i + 1,
                              parse_security_level(ls[i], security_level),
                              Unwrap(a.val),
                              parse_sender(ls[i], sender))

\* SaoriRequest::new with the loop over the header lines before the call
\* of parse_version_and_command.
SaoriRequest_new_headers_first(b) ==
    LET rc == read_contents_and_charset(b)
    IN  IF ~rc.ok THEN rc
        ELSE LET ls == lines(Unwrap(rc.val).contents)
                 h == parse_lines(ls, 2, None, <<>>, None)
                 cv == parse_version_and_command(IF ls = <<>> THEN None ELSE Some(ls[1]))
             IN  IF ~h.ok THEN h
                 ELSE IF ~cv.ok THEN cv
                 ELSE Ok([charset |-> Unwrap(rc.val).charset,
                          command |-> Unwrap(cv.val).command,
                          version |-> Unwrap(cv.val).version,
                          security_level |-> Unwrap(h.val).security_level,
                          arguments |-> Unwrap(h.val).arguments,
                          sender |-> Unwrap(h.val).sender])

\* SaoriRequest::new
SaoriRequest_new(b) ==
    LET rc == read_contents_and_charset(b)
    IN  IF ~rc.ok THEN rc
        ELSE LET ls == lines(Unwrap(rc.val).contents)
                 cv == parse_version_and_command(IF ls = <<>> THEN None ELSE Some(ls[1]))
             IN  IF ~cv.ok THEN cv
                 ELSE LET h == parse_lines(ls, 2, None, <<>>, None)
                      IN  IF ~h.ok THEN h
                          ELSE Ok([charset |-> Unwrap(rc.val).charset,
                                   command |-> Unwrap(cv.val).command,
                                   version |-> Unwrap(cv.val).version,
                                   security_level |-> Unwrap(h.val).security_level,
                                   arguments |-> Unwrap(h.val).arguments,
                                   sender |-> Unwrap(h.val).sender])

(***************************************************************************)
(* The encoders behind SaoriCharset::to_encoding, as response.rs uses      *)
(* them: Encoding::encode(text, EncoderTrap::Strict)                       *)
(***************************************************************************)

\* The UTF-8 bytes of one scalar value.
Utf8Bytes(cp) ==
    IF cp < 128 THEN <<cp>>
    ELSE IF cp < 2048 THEN <<192 + (cp \div 64), 128 + (cp % 64)>>
    ELSE IF cp < 65536
    THEN <<224 + (cp \div 4096), 128 + ((cp \div 64) % 64), 128 + (cp % 64)>>
    ELSE <<240 + (cp \div 262144), 128 + ((cp \div 4096) % 64),
           128 + ((cp \div 64) % 64), 128 + (cp % 64)>>

\* The JIS X 0208 pointer of a scalar value, within the part of the index
\* the model carries (see Jis0208).
Jis0208Pointer(cp) ==
    IF \E q \in {283} : Jis0208(q) = Some(cp)
    THEN Some(CHOOSE q \in {283} : Jis0208(q) = Some(cp))
    ELSE None

\* The bytes of one scalar value in a stateless encoding, or None when the
\* encoding has no bytes for it.
EncodeChar(charset, cp) ==
    IF charset = "UTF8" THEN Some(Utf8Bytes(cp))
    ELSE IF cp < 128 THEN Some(<<cp>>)
    ELSE LET q == Jis0208Pointer(cp)
         IN  IF ~IsSome(q) THEN None
             ELSE LET lead == Unwrap(q) \div 188
                      trail == Unwrap(q) % 188
                  IN  IF charset = "ShiftJIS"
                      THEN Some(<<lead + (IF lead < 31 THEN 129 ELSE 193),
                                  trail + (IF trail < 63 THEN 64 ELSE 65)>>)
                      ELSE Some(<<(Unwrap(q) \div 94) + 161, (Unwrap(q) % 94) + 161>>)

\* ISO-2022-JP: the escape sequences that select ASCII and JIS X 0208.
ISO2022JP_TO_ASCII == <<27, 40, 66>>
ISO2022JP_TO_JIS0208 == <<27, 36, 66>>

\* Strict encoding of text from position i on; jis is the ISO-2022-JP
\* encoder's state (TRUE while JIS X 0208 is selected).  Ok(bytes), or Err at
\* the first character the encoding cannot hold.  A run of ASCII characters
\* is encoded as one piece: every encoder maps them to themselves.
RECURSIVE EncodeFrom(_, _, _, _)
EncodeFrom(charset, text, i, jis) ==
    LET wide == {j \in i..Len(text) : text[j] >= 128}
        k == IF wide = {} THEN Len(text) + 1 ELSE Min(wide)
        run == IF k > i /\ jis THEN ISO2022JP_TO_ASCII \o SubSeq(text, i, k - 1)
               ELSE SubSeq(text, i, k - 1)
        inJis == jis /\ k = i
    IN  IF k > Len(text)
        THEN Ok(run \o (IF inJis THEN ISO2022JP_TO_ASCII ELSE <<>>))
        ELSE IF charset = "ISO2022JP" THEN
            LET q == Jis0208Pointer(text[k])
            IN  IF ~IsSome(q) THEN Err("SaoriResponseError", "DecodeFailed")
                ELSE LET rest == EncodeFrom(charset, text, k + 1, TRUE)
                     IN  IF ~rest.ok THEN rest
                         ELSE Ok(run \o (IF inJis THEN <<>> ELSE ISO2022JP_TO_JIS0208)
                                 \o <<(Unwrap(q) \div 94) + 33, (Unwrap(q) % 94) + 33>>
                                 \o Unwrap(rest.val))
        ELSE LET e == EncodeChar(charset, text[k])
             IN  IF ~IsSome(e) THEN Err("SaoriResponseError", "DecodeFailed")
                 ELSE LET rest == EncodeFrom(charset, text, k + 1, FALSE)
                      IN  IF ~rest.ok THEN rest
                          ELSE Ok(run \o Unwrap(e) \o Unwrap(rest.val))

\* Encoding::encode(text, EncoderTrap::Replace): "?" stands in for a
\* character the encoding cannot hold.
encode_replacing(charset, text) ==
    EncodeFrom(charset,
               [i \in 1..Len(text) |->
                   IF charset = "UTF8" \/ text[i] < 128 \/ IsSome(Jis0208Pointer(text[i]))
                   THEN text[i] ELSE 63],
               1, FALSE)

\* Encoding::encode(text, EncoderTrap::Strict)
encode(charset, text) == EncodeFrom(charset, text, 1, FALSE)

\* str::as_bytes: the UTF-8 bytes of a str
RECURSIVE as_bytes(_)
as_bytes(text) ==
    LET wide == {j \in 1..Len(text) : text[j] >= 128}
    IN  IF wide = {} THEN text
        ELSE LET k == Min(wide)
             IN  SubSeq(text, 1, k - 1) \o Utf8Bytes(text[k]) \o as_bytes(From(text, k + 1))

\* `*v as i8`
as_i8(v) == IF v >= 128 THEN v - 256 ELSE v

(***************************************************************************)
(* response.rs                                                             *)
(***************************************************************************)

\* enum SaoriStatus
SaoriStatus == {"OK", "NoContent", "BadRequest", "InternalServerError"}

\* SaoriStatus::to_code
to_code(status) ==
    CASE status = "OK" -> 200
      [] status = "NoContent" -> 204
      [] status = "BadRequest" -> 400
      [] status = "InternalServerError" -> 500

\* SaoriStatus::to_str, as a table
StatusStr ==
    [status \in SaoriStatus |->
        CASE status = "OK" -> Str("OK")
          [] status = "NoContent" -> Str("No Content")
          [] status = "BadRequest" -> Str("Bad Request")
          [] status = "InternalServerError" -> Str("Internal Server Error")]

\* SaoriStatus::to_str
status_to_str(status) == StatusStr[status]

\* The literals of the format strings of fmt
FMT_CHARSET == Str("Charset: ")
FMT_RESULT == Str("Result: ")
FMT_VALUE == Str("Value")

\* new_bad_request with the charset a request without a Charset line has.
new_bad_request_shift_jis ==
    [version |-> "V1_0", status |-> "BadRequest", result |-> <<>>,
     values |-> <<>>, charset |-> "ShiftJIS"]

\* SaoriResponse::new_bad_request
new_bad_request ==
    [version |-> "V1_0", status |-> "BadRequest", result |-> <<>>,
     values |-> <<>>, charset |-> "UTF8"]

\* from_request with the charset of new_bad_request.
from_request_utf8(req) ==
    [version |-> req.version, status |-> "NoContent", result |-> <<>>,
     values |-> <<>>, charset |-> "UTF8"]

\* SaoriResponse::from_request
from_request(req) ==
    [version |-> req.version, status |-> "NoContent", result |-> <<>>,
     values |-> <<>>, charset |-> req.charset]

\* on_change_result_and_value taking a Vec of empty strings for content:
\* the actually_empty_values test is left out.
on_change_ignoring_empty_strings(self) ==
    IF self.status \in {"BadRequest", "InternalServerError"} THEN self
    ELSE [self EXCEPT !.status =
             IF self.result = <<>> /\ self.values = <<>> THEN "NoContent" ELSE "OK"]

\* on_change_result_and_value with InternalServerError missing from the
\* match arm of the states it leaves alone.
on_change_bad_request_only(self) ==
    IF self.status = "BadRequest" THEN self
    ELSE LET actually_empty_values ==
                 \A i \in 1..Len(self.values) : self.values[i] = <<>>
         IN  [self EXCEPT !.status =
                 IF self.result = <<>> /\ (self.values = <<>> \/ actually_empty_values)
                 THEN "NoContent" ELSE "OK"]

\* SaoriResponse::on_change_result_and_value
on_change_result_and_value(self) ==
    IF self.status \in {"BadRequest", "InternalServerError"} THEN self
    ELSE LET actually_empty_values ==
                 \A i \in 1..Len(self.values) : self.values[i] = <<>>
         IN  [self EXCEPT !.status =
                 IF self.result = <<>> /\ (self.values = <<>> \/ actually_empty_values)
                 THEN "NoContent" ELSE "OK"]

\* set_status leaving a BadRequest or InternalServerError status alone, as
\* the other setters do.
set_status_unless_sticky(self, status) ==
    IF self.status \in {"BadRequest", "InternalServerError"} THEN self
    ELSE [self EXCEPT !.status = status]

\* SaoriResponse::set_status
set_status(self, status) == [self EXCEPT !.status = status]

\* SaoriResponse::set_result
set_result(self, result) ==
    on_change_result_and_value([self EXCEPT !.result = result])

\* set_value_at appending the value when the index is past the end
\* (`push(value)` for the padding loop).
set_value_at_pushing(self, index, value) ==
    on_change_result_and_value(
        [self EXCEPT !.values =
            IF index < Len(self.values) THEN [self.values EXCEPT ![index + 1] = value]
            ELSE Append(self.values, value)])

\* SaoriResponse::set_value_at
set_value_at(self, index, value) ==
    LET n == Len(self.values)
        padded == [i \in 1..(IF n <= index THEN index + 1 ELSE n) |->
                      IF i <= n THEN self.values[i] ELSE <<>>]
    IN  on_change_result_and_value(
            [self EXCEPT !.values = [padded EXCEPT ![index + 1] = value]])

\* set_values without the call of on_change_result_and_value.
set_values_without_recompute(self, values) == [self EXCEPT !.values = values]

\* SaoriResponse::set_values
set_values(self, values) ==
    on_change_result_and_value([self EXCEPT !.values = values])

\* The loop of fmt leaving out the values that are empty strings.
RECURSIVE fmt_values_skipping_empty(_, _)
fmt_values_skipping_empty(values, i) ==
    IF i > Len(values) THEN <<>>
    ELSE (IF values[i] = <<>> THEN <<>>
          ELSE FMT_VALUE \o to_decimal(i - 1) \o COLON_SPACE \o values[i] \o CRLF)
         \o fmt_values_skipping_empty(values, i + 1)

\* The `for (index, value) in self.values.iter().enumerate()` loop of fmt,
\* from element i (1-based) on.
RECURSIVE fmt_values(_, _)
fmt_values(values, i) ==
    IF i > Len(values) THEN <<>>
    ELSE FMT_VALUE \o to_decimal(i - 1) \o COLON_SPACE \o values[i] \o CRLF
         \o fmt_values(values, i + 1)

\* fmt without the `if self.status == SaoriStatus::OK` around the body.
to_string_body_always(self) ==
    version_to_str(self.version) \o SPACE
    \o to_decimal(to_code(self.status)) \o SPACE
    \o status_to_str(self.status) \o CRLF
    \o FMT_CHARSET \o charset_to_str(self.charset) \o CRLF
    \o (IF self.result # <<>> THEN FMT_RESULT \o self.result \o CRLF ELSE <<>>)
    \o fmt_values(self.values, 1)
    \o CRLF \o NUL

\* impl Display for SaoriResponse (to_string)
to_string(self) ==
    LET head == version_to_str(self.version) \o SPACE
                \o to_decimal(to_code(self.status)) \o SPACE
                \o status_to_str(self.status) \o CRLF
                \o FMT_CHARSET \o charset_to_str(self.charset) \o CRLF
        body == IF self.status = "OK"
                THEN (IF self.result # <<>>
                      THEN FMT_RESULT \o self.result \o CRLF ELSE <<>>)
                     \o fmt_values(self.values, 1)
                ELSE <<>>
    IN  head \o body \o CRLF \o NUL

\* SaoriResponse::to_encoded_bytes
to_encoded_bytes(self) ==
    LET e == encode(self.charset, to_string(self))
    IN  IF e.ok THEN Ok([i \in 1..Len(Unwrap(e.val)) |-> as_i8(Unwrap(e.val)[i])])
        ELSE Err("SaoriResponseError", "DecodeFailed")

\* error_bytes of a constant that lacks the final "\0".
error_bytes_without_nul ==
    LET ERROR_RESPONCE == Str("SAORI/1.0 500 Internal Server Error\r\nCharset: UTF-8\r\n\r\n")
        b == as_bytes(ERROR_RESPONCE)
    IN  [i \in 1..Len(b) |-> as_i8(b[i])]

\* SaoriResponse::error_bytes
error_bytes ==
    LET ERROR_RESPONCE == Str("SAORI/1.0 500 Internal Server Error\r\nCharset: UTF-8\r\n\r\n")
                          \o NUL
        b == as_bytes(ERROR_RESPONCE)
    IN  [i \in 1..Len(b) |-> as_i8(b[i])]

(***************************************************************************)
(* Inputs                                                                  *)
(***************************************************************************)

\* The most header lines of a generated request.
MaxHeaders == 3

\* The most elements of a Vec passed to set_values, and the bound (exclusive)
\* of the index passed to set_value_at.
MaxValues == 2

\* First lines that parse_version_and_command accepts.
GoodFirstLines == {Str("EXECUTE SAORI/1.0"), Str("GET Version SAORI/1.0")}

\* First lines that it rejects.
BadFirstLines ==
    {Str("GET SAORI/1.0"), Str("EXECUTE SAORI1.0"), Str("GET Version SAORI/1.0 "),
     Str("execute SAORI/1.0"), Str("Charset: UTF-8"), <<>>}

\* Header lines, as bytes.  130 160 is HIRAGANA LETTER A in Shift_JIS and
\* malformed in the other three encodings.
HeaderLines ==
    {Str("Charset: UTF-8"), Str("Charset: Shift_JIS"), Str("Charset: utf-8"),
     Str("Argument0: a"), Str("Argument2: b"), Str("Argument+0: c"),
     Str("Argument1 a"), Str("Argumentx: a"),
     Str("SecurityLevel: Local"), Str("SecurityLevel: External"),
     Str("SecurityLevel: Any"),
     Str("Sender: m"), Str("X-Unknown: 1"),
     Str("Sender: ") \o <<130, 160>>}

\* The sequences over S of length at most n.
RECURSIVE SeqsUpTo(_, _)
SeqsUpTo(S, n) ==
    IF n = 0 THEN {<<>>}
    ELSE LET shorter == SeqsUpTo(S, n - 1)
         IN  shorter \cup {Append(q, x) : q \in shorter, x \in S}

\* The lines, each followed by CRLF.
RECURSIVE JoinLines(_)
JoinLines(ls) == IF ls = <<>> THEN <<>> ELSE ls[1] \o CRLF \o JoinLines(Tail(ls))

\* A request on the wire: the first line, the headers, an empty line, NUL.
Wire(first, headers) == JoinLines(<<first>> \o headers) \o CRLF \o NUL

\* Buffers that are not of the Wire form: the empty buffer, a lone NUL, a
\* lone CRLF, a request without a line end, one ended by a bare CR, one with
\* LF line ends, one behind a UTF-8 byte order mark.
OddBuffers ==
    {<<>>, NUL, CRLF, Str("EXECUTE SAORI/1.0"), Str("EXECUTE SAORI/1.0\r"),
     Str("EXECUTE SAORI/1.0\nCharset: UTF-8\nArgument1: a\n"),
     UTF8_BOM \o Wire(Str("EXECUTE SAORI/1.0"), <<Str("Charset: EUC-JP")>>)}

\* Requests in EUC-JP and ISO-2022-JP whose argument is HIRAGANA LETTER A
\* (164 162 in EUC-JP, ESC $ B 36 34 ESC ( B in ISO-2022-JP), and a request
\* that declares EUC-JP and carries the Shift_JIS bytes.
KanaBuffers ==
    {Wire(Str("EXECUTE SAORI/1.0"),
          <<Str("Charset: EUC-JP"), Str("Argument0: ") \o <<164, 162>>>>),
     Wire(Str("EXECUTE SAORI/1.0"),
          <<Str("Charset: ISO-2022-JP"),
            Str("Argument0: ") \o <<27, 36, 66, 36, 34, 27, 40, 66>>>>),
     Wire(Str("EXECUTE SAORI/1.0"),
          <<Str("Charset: EUC-JP"), Str("Argument0: ") \o <<130, 160>>>>)}

\* Requests with more than one defect: a rejected first line with bytes
\* that are malformed in the declared charset, with an unsupported charset
\* behind a malformed Argument line, and with two malformed Argument lines.
FaultyBuffers ==
    {Wire(Str("GET SAORI/1.0"),
          <<Str("Charset: UTF-8"), Str("Sender: ") \o <<130, 160>>>>),
     Wire(Str("GET SAORI/1.0"),
          <<Str("Argument1 a"), Str("Charset: utf-8"), Str("Sender: ") \o <<130, 160>>>>),
     Wire(Str("EXECUTE SAORI1.0"), <<Str("Argumentx: a"), Str("Argument1 a")>>),
     Wire(Str("EXECUTE SAORI/1.0"), <<Str("Argumentx a"), Str("Argumentx: a")>>)}

\* The buffers the decoder is run on.
Buffers ==
    {Wire(f, hs) : f \in GoodFirstLines, hs \in SeqsUpTo(HeaderLines, MaxHeaders)}
    \cup {Wire(f, hs) : f \in BadFirstLines, hs \in SeqsUpTo(HeaderLines, 1)}
    \cup OddBuffers \cup KanaBuffers \cup FaultyBuffers

\* The buffers a response's life starts from: one per charset, one without
\* a Charset line, one that does not decode.
ResponseBuffers ==
    {Wire(Str("EXECUTE SAORI/1.0"), <<Str("Charset: ") \o charset_to_str(SaoriCharset[i])>>) :
        i \in 1..Len(SaoriCharset)}
    \cup {Wire(Str("GET Version SAORI/1.0"), <<>>), Wire(Str("GET SAORI/1.0"), <<>>)}

\* The strings passed to set_result.
Results == {<<>>, Str("1")}

\* The strings passed to set_value_at and inside set_values.
ValueStrings == {<<>>, Str("a")}

\* Strings with characters outside ASCII: HIRAGANA LETTER A (U+3042), which
\* all four encodings hold, and GRINNING FACE (U+1F600), which only UTF-8
\* holds.
WideStrings == {<<>>, Str("1"), <<12354>>, <<128512>>}

\* The vectors passed to set_values.
ValueLists == SeqsUpTo(ValueStrings, MaxValues)

(***************************************************************************)
(* The state machine: one request is decoded, one response is built,       *)
(* mutated and serialized.                                                 *)
(*   bytes     the buffer handed to SaoriRequest::new                      *)
(*   request   None, or Some(the Result SaoriRequest::new returned)        *)
(*   response  None, or Some(the SaoriResponse)                            *)
(*   last      the name of the last call                                   *)
(*   output    None, or Some(what the last serialization returned)         *)
(***************************************************************************)

Init ==
    /\ bytes = <<>>
    /\ request = None
    /\ response = None
    /\ last = "init"
    /\ output = None

\* SaoriRequest::new(b), for a buffer b of the set S
New(S) ==
    /\ request = None
    /\ response = None
    /\ \E b \in S :
        /\ bytes' = b
        /\ request' = Some(SaoriRequest_new(b))
    /\ last' = "new"
    /\ UNCHANGED <<response, output>>

\* SaoriResponse::from_request(&request)
FromRequest ==
    /\ IsSome(request)
    /\ Unwrap(request).ok
    /\ response = None
    /\ response' = Some(from_request(Unwrap(Unwrap(request).val)))
    /\ last' = "from_request"
    /\ UNCHANGED <<bytes, request, output>>

\* SaoriResponse::new_bad_request()
NewBadRequest ==
    /\ response = None
    /\ response' = Some(new_bad_request)
    /\ last' = "new_bad_request"
    /\ UNCHANGED <<bytes, request, output>>

\* response.set_status(status)
SetStatus(status) ==
    /\ IsSome(response)
    /\ response' = Some(set_status(Unwrap(response), status))
    /\ last' = "set_status"
    /\ UNCHANGED <<bytes, request, output>>

\* response.set_result(result)
SetResult(result) ==
    /\ IsSome(response)
    /\ response' = Some(set_result(Unwrap(response), result))
    /\ last' = "set_result"
    /\ UNCHANGED <<bytes, request, output>>

\* response.set_value_at(index, value)
SetValueAt(index, value) ==
    /\ IsSome(response)
    /\ response' = Some(set_value_at(Unwrap(response), index, value))
    /\ last' = "set_value_at"
    /\ UNCHANGED <<bytes, request, output>>

\* response.set_values(values)
SetValues(values) ==
    /\ IsSome(response)
    /\ response' = Some(set_values(Unwrap(response), values))
    /\ last' = "set_values"
    /\ UNCHANGED <<bytes, request, output>>

\* to_string taking the result out of the response (`std::mem::take`).
ToStringTakingResult ==
    /\ IsSome(response)
    /\ output' = Some([ok |-> TRUE, data |-> to_string(Unwrap(response))])
    /\ response' = Some([Unwrap(response) EXCEPT !.result = <<>>])
    /\ last' = "to_string"
    /\ UNCHANGED <<bytes, request>>

\* response.to_string()
ToString ==
    /\ IsSome(response)
    /\ output' = Some([ok |-> TRUE, data |-> to_string(Unwrap(response))])
    /\ last' = "to_string"
    /\ UNCHANGED <<bytes, request, response>>

\* response.to_encoded_bytes()
ToEncodedBytes ==
    /\ IsSome(response)
    /\ LET r == to_encoded_bytes(Unwrap(response))
       IN  output' = Some([ok |-> r.ok,
                           data |-> IF r.ok THEN Unwrap(r.val) ELSE <<>>])
    /\ last' = "to_encoded_bytes"
    /\ UNCHANGED <<bytes, request, response>>

\* The life of a response.
Next ==
    \/ New(ResponseBuffers)
    \/ FromRequest
    \/ NewBadRequest
    \/ \E status \in SaoriStatus : SetStatus(status)
    \/ \E result \in Results : SetResult(result)
    \/ \E index \in 0..(MaxValues - 1), value \in ValueStrings : SetValueAt(index, value)
    \/ \E values \in ValueLists : SetValues(values)
    \/ ToString
    \/ ToEncodedBytes

Spec == Init /\ [][Next]_vars

\* The decoder on every buffer, and the unmutated response to what it decoded.
NextDecode ==
    \/ New(Buffers)
    \/ FromRequest
    \/ ToString
    \/ ToEncodedBytes

SpecDecode == Init /\ [][NextDecode]_vars

\* A response built by from_request and changed by set_result, set_value_at
\* and set_values only.
NextDerive ==
    \/ New(ResponseBuffers)
    \/ FromRequest
    \/ \E result \in Results : SetResult(result)
    \/ \E index \in 0..(MaxValues - 1), value \in ValueStrings : SetValueAt(index, value)
    \/ \E values \in ValueLists : SetValues(values)
    \/ ToString
    \/ ToEncodedBytes

SpecDerive == Init /\ [][NextDerive]_vars

\* A response built by new_bad_request and changed by set_result,
\* set_value_at and set_values only.
NextBadRequest ==
    \/ NewBadRequest
    \/ \E result \in WideStrings : SetResult(result)
    \/ \E index \in 0..(MaxValues - 1), value \in ValueStrings : SetValueAt(index, value)
    \/ \E values \in ValueLists : SetValues(values)
    \/ ToString
    \/ ToEncodedBytes

SpecBadRequest == Init /\ [][NextBadRequest]_vars

\* A response built by new_bad_request, set to InternalServerError, changed
\* by set_result, set_value_at and set_values, and encoded.
NextInternalServerError ==
    \/ NewBadRequest
    \/ SetStatus("InternalServerError")
    \/ \E result \in WideStrings : SetResult(result)
    \/ \E index \in 0..(MaxValues - 1), value \in ValueStrings : SetValueAt(index, value)
    \/ \E values \in ValueLists : SetValues(values)
    \/ ToEncodedBytes

SpecInternalServerError == Init /\ [][NextInternalServerError]_vars

\* A response that is given strings outside ASCII and is encoded.
NextEncode ==
    \/ New(ResponseBuffers)
    \/ FromRequest
    \/ \E result \in WideStrings : SetResult(result)
    \/ \E value \in WideStrings : SetValueAt(0, value)
    \/ ToEncodedBytes

SpecEncode == Init /\ [][NextEncode]_vars

(***************************************************************************)
(* Properties of the response                                              *)
(***************************************************************************)

Setters == {"set_result", "set_value_at", "set_values"}
Serializers == {"to_string", "to_encoded_bytes"}
Sticky == {"BadRequest", "InternalServerError"}

\* Whether result or some element of values is a non-empty string.
HasContent(r) == r.result # <<>> \/ \E i \in 1..Len(r.values) : r.values[i] # <<>>

\* The status lines and charset names of the wire format, written out.
WireStatusLine ==
    [status \in SaoriStatus |->
        CASE status = "OK" -> Str("SAORI/1.0 200 OK\r\n")
          [] status = "NoContent" -> Str("SAORI/1.0 204 No Content\r\n")
          [] status = "BadRequest" -> Str("SAORI/1.0 400 Bad Request\r\n")
          [] status = "InternalServerError" ->
                 Str("SAORI/1.0 500 Internal Server Error\r\n")]

WireCharsetLine ==
    [charset \in {"ShiftJIS", "EucJP", "UTF8", "ISO2022JP"} |->
        CASE charset = "ShiftJIS" -> Str("Charset: Shift_JIS\r\n")
          [] charset = "EucJP" -> Str("Charset: EUC-JP\r\n")
          [] charset = "UTF8" -> Str("Charset: UTF-8\r\n")
          [] charset = "ISO2022JP" -> Str("Charset: ISO-2022-JP\r\n")]

WireEnd == Str("\r\n") \o <<0>>
WireResult == Str("Result: ")
WireValue == Str("Value")
WireSeparator == Str(": ")
WireLineEnd == Str("\r\n")
WireDigits == Str("0123456789")

\* The text "200 OK" status line of a serialization made while the status was OK.
IsOkText(data) == StartsWith(data, WireStatusLine["OK"])

\* C1: in every state of a response built by from_request and changed only
\* by set_result, set_value_at and set_values, the status is OK if result or
\* some value is non-empty and NoContent otherwise (so never BadRequest or
\* InternalServerError).
C1_StatusDerived ==
    IsSome(response) =>
        Unwrap(response).status =
            IF HasContent(Unwrap(response)) THEN "OK" ELSE "NoContent"

\* C1 witness: a setter was the last call, the status is NoContent, and an
\* earlier serialization of this response shows it was OK before.
C1_Witness ==
    /\ IsSome(response) /\ IsSome(output)
    /\ last \in Setters
    /\ Unwrap(response).status = "NoContent"
    /\ Unwrap(output).ok /\ IsOkText(Unwrap(output).data)

\* C2: a set_result, set_value_at or set_values call on a response whose
\* status is BadRequest or InternalServerError leaves the status as it is.
C2_Sticky ==
    [][(IsSome(response) /\ Unwrap(response).status \in Sticky /\ last' \in Setters)
         => Unwrap(response').status = Unwrap(response).status]_vars

\* C2 witness: a setter was the last call, it stored content, and the status
\* is InternalServerError.
C2_Witness ==
    /\ IsSome(response)
    /\ last \in Setters
    /\ Unwrap(response).status = "InternalServerError"
    /\ Unwrap(response).result # <<>>
    /\ Unwrap(response).values # <<>>

\* C3: the text to_string returns for a response whose status is not OK is
\* the status line, the Charset line and the terminator, whatever result and
\* values hold.
C3_NoBodyUnlessOk ==
    (last = "to_string" /\ Unwrap(response).status # "OK") =>
        Unwrap(output).data =
            WireStatusLine[Unwrap(response).status]
            \o WireCharsetLine[Unwrap(response).charset] \o WireEnd

\* C3 witness: to_string was called on an InternalServerError response that
\* holds a result and values.
C3_Witness ==
    /\ last = "to_string"
    /\ Unwrap(response).status = "InternalServerError"
    /\ Unwrap(response).result # <<>>
    /\ \E i \in 1..Len(Unwrap(response).values) : Unwrap(response).values[i] # <<>>

\* The Value lines of the first n values, in ascending order of index.
RECURSIVE WireValueLines(_, _)
WireValueLines(values, n) ==
    IF n = 0 THEN <<>>
    ELSE WireValueLines(values, n - 1)
         \o WireValue \o <<WireDigits[n]>> \o WireSeparator \o values[n] \o WireLineEnd

\* C4: the text to_string returns for a response whose status is OK is the
\* 200 status line, the Charset line, a Result line exactly when result is
\* non-empty, one Value line per index of values in ascending order (empty
\* strings included), and the terminator.
C4_OkBody ==
    (last = "to_string" /\ Unwrap(response).status = "OK") =>
        LET r == Unwrap(response)
        IN  /\ Len(r.values) <= Len(WireDigits)
            /\ Unwrap(output).data =
                  WireStatusLine["OK"] \o WireCharsetLine[r.charset]
                  \o (IF r.result # <<>> THEN WireResult \o r.result \o WireLineEnd
                      ELSE <<>>)
                  \o WireValueLines(r.values, Len(r.values))
                  \o WireEnd

\* C4 witness: to_string was called on an OK response without a result whose
\* values are an empty string followed by a non-empty one.
C4_Witness ==
    /\ last = "to_string"
    /\ Unwrap(response).status = "OK"
    /\ Unwrap(response).result = <<>>
    /\ Len(Unwrap(response).values) = 2
    /\ Unwrap(response).values[1] = <<>>
    /\ Unwrap(response).values[2] # <<>>

WireCharset == Str("Charset: ")
WireGetVersion == Str("GET Version ")
WireExecute == Str("EXECUTE ")
WireVersion == Str("SAORI/1.0")
WireArgument == Str("Argument")
WireCharsetName ==
    [charset \in {"ShiftJIS", "EucJP", "UTF8", "ISO2022JP"} |->
        CASE charset = "ShiftJIS" -> Str("Shift_JIS")
          [] charset = "EucJP" -> Str("EUC-JP")
          [] charset = "UTF8" -> Str("UTF-8")
          [] charset = "ISO2022JP" -> Str("ISO-2022-JP")]

\* The positions at which a line of the buffer (or text) b starts.
LineStarts(b) == {k \in 1..Len(b) : k = 1 \/ b[k - 1] = 10}

\* The line of b that starts at position k, without its CRLF or LF.
LineAt(b, k) ==
    LET ends == {j \in k..Len(b) : b[j] = 10}
        e == IF ends = {} THEN Len(b) + 1 ELSE Min(ends)
    IN  IF ends # {} /\ e > k /\ b[e - 1] = 13 THEN SubSeq(b, k, e - 2)
        ELSE SubSeq(b, k, e - 1)

\* The positions of the lines of b that begin with "Charset: ".
CharsetLines(b) == {k \in LineStarts(b) : StartsWith(LineAt(b, k), WireCharset)}

\* What the buffer declares as its charset: the rest of its first line that
\* begins with "Charset: ", or None.
DeclaredCharset(b) ==
    IF CharsetLines(b) = {} THEN None
    ELSE Some(From(LineAt(b, Min(CharsetLines(b))), Len(WireCharset) + 1))

\* The decoded body of the buffer, when the charset resolves and the buffer
\* decodes (otherwise None).
DecodedBody(b) ==
    LET rc == read_contents_and_charset(b)
    IN  IF rc.ok THEN Some(Unwrap(rc.val).contents) ELSE None

\* C5: when the buffer decodes to a body, SaoriRequest::new fails with
\* EmptyRequest on an empty body, with NoCommand on a first line that begins
\* with neither "GET Version " nor "EXECUTE ", with NoVersion when the rest of
\* the first line is not "SAORI/1.0"; otherwise the first line yields the
\* command of its prefix and V1_0, and only an Argument error can follow.
C5_FirstLine ==
    (IsSome(request) /\ IsSome(DecodedBody(bytes))) =>
        LET body == Unwrap(DecodedBody(bytes))
            r == Unwrap(request)
            first == LineAt(body, 1)
            isGet == StartsWith(first, WireGetVersion)
            isExecute == StartsWith(first, WireExecute)
            rest == From(first, 1 + (IF isGet THEN Len(WireGetVersion)
                                    ELSE Len(WireExecute)))
            command == IF isGet THEN "GetVersion" ELSE "Execute"
        IN  IF body = <<>> THEN r = Err("VersionLine", "EmptyRequest")
            ELSE IF ~isGet /\ ~isExecute THEN r = Err("VersionLine", "NoCommand")
            ELSE IF rest # WireVersion THEN r = Err("VersionLine", "NoVersion")
            ELSE /\ parse_version_and_command(Some(first))
                      = Ok([command |-> command, version |-> "V1_0"])
                 /\ r.ok => /\ Unwrap(r.val).command = command
                            /\ Unwrap(r.val).version = "V1_0"
                 /\ ~r.ok => Unwrap(r.err)[1] = "Argument"

\* C5 witness: the first line of the buffer is a Charset header, and the
\* decoder answered NoCommand.
C5_Witness ==
    /\ IsSome(request)
    /\ StartsWith(bytes, WireCharset)
    /\ Unwrap(request) = Err("VersionLine", "NoCommand")

\* The numbers (2..) of the lines after the first that begin with "Argument".
ArgumentLines(ls) == {i \in 2..Len(ls) : StartsWith(ls[i], WireArgument)}

\* The text of an Argument line between "Argument" and the first ": ", and
\* the text behind that ": ".
ArgumentIndexText(line) ==
    LET rest == From(line, Len(WireArgument) + 1)
    IN  SubSeq(rest, 1, FindFrom(rest, WireSeparator, 1) - 1)

ArgumentValue(line) ==
    LET rest == From(line, Len(WireArgument) + 1)
    IN  From(rest, FindFrom(rest, WireSeparator, 1) + Len(WireSeparator))

\* The greatest element of a non-empty set of integers.
Max(S) == CHOOSE x \in S : \A y \in S : y <= x

\* C6: the arguments of a decoded request are empty when no line after the
\* first begins with "Argument"; otherwise there are 1 + the greatest index
\* of such a line of them, and position i holds the value of the last line
\* whose index is i, or the empty string when no line has index i.
C6_Arguments ==
    (IsSome(request) /\ Unwrap(request).ok) =>
        LET ls == lines(Unwrap(DecodedBody(bytes)))
            A == ArgumentLines(ls)
            index(i) == Unwrap(parse_usize(ArgumentIndexText(ls[i])))
            arguments == Unwrap(Unwrap(request).val).arguments
        IN  /\ A = {} => arguments = <<>>
            /\ A # {} => Len(arguments) = 1 + Max({index(i) : i \in A})
            /\ \A j \in 1..Len(arguments) :
                  LET named == {i \in A : index(i) = j - 1}
                  IN  arguments[j] = IF named = {} THEN <<>>
                                     ELSE ArgumentValue(ls[Max(named)])

\* C6 witness: three Argument lines, two of them with index 0, none with
\* index 1, decoded to three arguments.
C6_Witness ==
    /\ IsSome(request) /\ Unwrap(request).ok
    /\ Cardinality(ArgumentLines(lines(Unwrap(DecodedBody(bytes))))) = 3
    /\ Len(Unwrap(Unwrap(request).val).arguments) = 3
    /\ Unwrap(Unwrap(request).val).arguments[1] # <<>>
    /\ Unwrap(Unwrap(request).val).arguments[2] = <<>>

\* C7: the charset is resolved from the first line of the buffer that begins
\* with "Charset: ": one of the four names gives its variant, any other rest
\* fails with UnsupportedCharset, and no such line gives ShiftJIS.  (A
\* resolved charset can still fail to decode the buffer: DecodeFailed.)
C7_Charset ==
    IsSome(request) =>
        LET declared == DeclaredCharset(bytes)
            r == Unwrap(request)
            rc == read_contents_and_charset(bytes)
            Resolved(charset) ==
                /\ rc.ok => Unwrap(rc.val).charset = charset
                /\ ~rc.ok => rc = Err("Charset", "DecodeFailed")
                /\ r.ok => Unwrap(r.val).charset = charset
                /\ ~r.ok => r # Err("Charset", "UnsupportedCharset")
        IN  IF ~IsSome(declared) THEN Resolved("ShiftJIS")
            ELSE IF \E c \in DOMAIN WireCharsetName : WireCharsetName[c] = Unwrap(declared)
            THEN Resolved(CHOOSE c \in DOMAIN WireCharsetName :
                             WireCharsetName[c] = Unwrap(declared))
            ELSE /\ r = Err("Charset", "UnsupportedCharset")
                 /\ rc = Err("Charset", "UnsupportedCharset")

\* C7 witness: the first Charset line names no supported charset, a later
\* one names UTF-8, and the decoder answered UnsupportedCharset.
C7_Witness ==
    /\ IsSome(request)
    /\ Unwrap(request) = Err("Charset", "UnsupportedCharset")
    /\ \E k \in CharsetLines(bytes) :
          /\ k > Min(CharsetLines(bytes))
          /\ LineAt(bytes, k) = WireCharset \o WireCharsetName["UTF8"]

\* Whether the text is an optional "+" and then one or more ASCII digits.
IsIndexText(t) ==
    LET d == IF t # <<>> /\ t[1] = 43 THEN From(t, 2) ELSE t
    IN  d # <<>> /\ \A i \in 1..Len(d) : d[i] >= 48 /\ d[i] <= 57

\* Whether an Argument line lacks the ": ", and whether it has one behind a
\* text that is no index.
LacksSeparator(line) == FindFrom(From(line, Len(WireArgument) + 1), WireSeparator, 1) = 0
LacksIndex(line) == ~LacksSeparator(line) /\ ~IsIndexText(ArgumentIndexText(line))

\* C8: when some line after the first of the decoded body begins with
\* "Argument" and has no ": " behind it, or has a ": " with no index before
\* it, SaoriRequest::new returns an error and no request; when the first line
\* is accepted the error is InvalidSeparator or NoIndex, as the first such
\* line decides (the separator before the index), whatever lines precede and
\* follow it.
C8_ArgumentErrors ==
    (IsSome(request) /\ IsSome(DecodedBody(bytes))) =>
        LET body == Unwrap(DecodedBody(bytes))
            ls == lines(body)
            r == Unwrap(request)
            accepted == body # <<>> /\ parse_version_and_command(Some(LineAt(body, 1))).ok
            malformed == {i \in ArgumentLines(ls) :
                             LacksSeparator(ls[i]) \/ LacksIndex(ls[i])}
        IN  /\ malformed # {} => (~r.ok /\ r.val = None)
            /\ (malformed # {} /\ accepted) =>
                  r = Err("Argument",
                          IF LacksSeparator(ls[Min(malformed)])
                          THEN "InvalidSeparator" ELSE "NoIndex")
            /\ (malformed = {} /\ accepted) => r.ok

\* C8 witness: the third line lacks the ": ", the second and the fourth are
\* well-formed Argument lines, and the decoder answered InvalidSeparator.
C8_Witness ==
    /\ IsSome(request) /\ IsSome(DecodedBody(bytes))
    /\ Unwrap(request) = Err("Argument", "InvalidSeparator")
    /\ LET ls == lines(Unwrap(DecodedBody(bytes)))
       IN  /\ Len(ls) >= 4
           /\ {2, 3, 4} \subseteq ArgumentLines(ls)
           /\ LacksSeparator(ls[3])
           /\ ~LacksSeparator(ls[2]) /\ ~LacksIndex(ls[2])
           /\ ~LacksSeparator(ls[4]) /\ ~LacksIndex(ls[4])

\* C9: the serialization of the response built by from_request from a
\* decoded request, not mutated, is the 204 status line, the Charset line of
\* the charset the buffer declares (Shift_JIS when it declares none) and the
\* terminator.  (Checked under SpecDecode, which has no mutating call.)
C9_RoundTrip ==
    (last \in Serializers) =>
        /\ Unwrap(output).ok
        /\ Unwrap(output).data =
              WireStatusLine["NoContent"] \o WireCharset
              \o (IF IsSome(DeclaredCharset(bytes)) THEN Unwrap(DeclaredCharset(bytes))
                  ELSE WireCharsetName["ShiftJIS"])
              \o WireLineEnd \o WireEnd

\* C9 witness: a request that declares EUC-JP and carries arguments was
\* decoded, and the response to it was serialized to bytes.
C9_Witness ==
    /\ last = "to_encoded_bytes"
    /\ DeclaredCharset(bytes) = Some(WireCharsetName["EucJP"])
    /\ Unwrap(Unwrap(request).val).arguments # <<>>

(***************************************************************************)
(* Further properties of the response                                      *)
(***************************************************************************)

\* The status the accumulators of r call for.
DerivedStatus(r) == IF HasContent(r) THEN "OK" ELSE "NoContent"

\* C11: set_status(s) changes the status to s, from every status and
\* whatever result and values hold, and changes nothing else; a set_result,
\* set_value_at or set_values call that directly follows a set_status to OK
\* or NoContent leaves the status the accumulators call for.
C11_SetStatus ==
    [][IsSome(response) =>
         /\ \A s \in SaoriStatus :
               set_status(Unwrap(response), s) = [Unwrap(response) EXCEPT !.status = s]
         /\ last' = "set_status" =>
               \E s \in SaoriStatus :
                   Unwrap(response') = [Unwrap(response) EXCEPT !.status = s]
         /\ (/\ last = "set_status"
             /\ Unwrap(response).status \notin Sticky
             /\ last' \in Setters) =>
               Unwrap(response').status = DerivedStatus(Unwrap(response'))]_vars

\* C11 witness: a response built by new_bad_request (no request was decoded)
\* whose status a setter recomputed to NoContent over a Vec of empty strings.
C11_Witness ==
    /\ request = None /\ IsSome(response)
    /\ last \in Setters
    /\ Unwrap(response).status = "NoContent"
    /\ Unwrap(response).values # <<>>

\* The calls that assign the status from the accumulators.
Deriving == Setters \cup {"from_request"}

\* C12 as stated: in every state in which the status is neither BadRequest
\* nor InternalServerError it is the status the accumulators call for.
\* (set_status(OK) over empty accumulators, or set_status(NoContent) over
\* non-empty ones, refutes it.)
C12_PureFunction ==
    (IsSome(response) /\ Unwrap(response).status \notin Sticky) =>
        Unwrap(response).status = DerivedStatus(Unwrap(response))

\* C12, amended: the status is the one the accumulators call for whenever it
\* is neither BadRequest nor InternalServerError and the last call was
\* from_request, set_result, set_value_at or set_values.
C12_PureAfterSetter ==
    (/\ IsSome(response)
     /\ Unwrap(response).status \notin Sticky
     /\ last \in Deriving) =>
        Unwrap(response).status = DerivedStatus(Unwrap(response))

\* C12 witness: a response built by new_bad_request that left BadRequest by
\* set_status and whose status a setter then computed to OK.
C12_Witness ==
    /\ request = None /\ IsSome(response)
    /\ last \in Setters
    /\ Unwrap(response).status = "OK"
    /\ HasContent(Unwrap(response))

\* Whether the charset has bytes for the character.
Encodable(charset, cp) ==
    charset = "UTF8" \/ cp < 128 \/ IsSome(Jis0208Pointer(cp))

\* The u8 an i8 was cast from.
ToU8(v) == IF v < 0 THEN v + 256 ELSE v

\* C13: to_encoded_bytes fails exactly when the text to_string returns has a
\* character the response's charset cannot encode, and then returns no
\* bytes; when it succeeds the bytes decode, in that charset and without
\* error, to that text.  Either way the response is left as it was.
C13_EncodeFailure ==
    [][last' = "to_encoded_bytes" =>
         LET r == Unwrap(response)
             text == to_string(r)
             out == Unwrap(output')
             fails == \E i \in 1..Len(text) : ~Encodable(r.charset, text[i])
         IN  /\ response' = response
             /\ out.ok <=> ~fails
             /\ ~out.ok => out.data = <<>>
             /\ out.ok =>
                   decode(r.charset, [i \in 1..Len(out.data) |-> ToU8(out.data[i])])
                     = [text |-> text, has_error |-> FALSE]]_vars

\* C13 witness: to_encoded_bytes failed on a Shift_JIS response in status OK,
\* and a setter then replaced what could not be encoded: the next
\* to_encoded_bytes succeeds.
C13_Witness ==
    /\ IsSome(response) /\ IsSome(output)
    /\ last \in Setters
    /\ ~Unwrap(output).ok
    /\ Unwrap(response).charset = "ShiftJIS"
    /\ Unwrap(response).status = "OK"
    /\ to_encoded_bytes(Unwrap(response)).ok

(***************************************************************************)
(* Further properties of the decoder                                       *)
(***************************************************************************)

WireSecurityLevelLocal == Str("SecurityLevel: Local")
WireSecurityLevelExternal == Str("SecurityLevel: External")
WireSecurityLevel == Str("SecurityLevel: ")
WireSender == Str("Sender: ")

\* Whether the first line of the decoded body is accepted.
FirstLineAccepted(body) ==
    body # <<>> /\ LineAt(body, 1) \in {WireGetVersion \o WireVersion,
                                        WireExecute \o WireVersion}

\* C14: the security_level of a decoded request is that of the last line
\* after the first that is "SecurityLevel: Local" or "SecurityLevel:
\* External", and is absent when there is none; a SecurityLevel line with
\* another value changes nothing, and SecurityLevel lines cause no error: a
\* body with an accepted first line and no Argument line is decoded.
C14_SecurityLevel ==
    (IsSome(request) /\ IsSome(DecodedBody(bytes))) =>
        LET body == Unwrap(DecodedBody(bytes))
            ls == lines(body)
            r == Unwrap(request)
            valid == {i \in 2..Len(ls) :
                         ls[i] \in {WireSecurityLevelLocal, WireSecurityLevelExternal}}
        IN  /\ r.ok =>
                  Unwrap(r.val).security_level =
                      IF valid = {} THEN None
                      ELSE IF ls[Max(valid)] = WireSecurityLevelLocal THEN Some("Local")
                      ELSE Some("External")
            /\ (FirstLineAccepted(body) /\ ArgumentLines(ls) = {}) => r.ok

\* C14 witness: a decoded request whose level is Local although a later
\* SecurityLevel line names another value.
C14_Witness ==
    /\ IsSome(request) /\ Unwrap(request).ok
    /\ Unwrap(Unwrap(request).val).security_level = Some("Local")
    /\ LET ls == lines(Unwrap(DecodedBody(bytes)))
       IN  \E i, j \in 2..Len(ls) :
              /\ i < j
              /\ ls[i] = WireSecurityLevelLocal
              /\ StartsWith(ls[j], WireSecurityLevel)
              /\ ls[j] \notin {WireSecurityLevelLocal, WireSecurityLevelExternal}

\* The buffer b without the line that starts at position k (and without
\* that line's LF).
RemoveLineAt(b, k) ==
    LET ends == {j \in k..Len(b) : b[j] = 10}
    IN  SubSeq(b, 1, k - 1) \o (IF ends = {} THEN <<>> ELSE From(b, Min(ends) + 1))

\* Whether a line begins with none of the three header patterns.
Unmatched(line) ==
    /\ ~StartsWith(line, WireSecurityLevel)
    /\ ~StartsWith(line, WireArgument)
    /\ ~StartsWith(line, WireSender)

\* How many of security_level, arguments and sender the line changes, each
\* taken in its initial state.
FieldsChangedBy(line) ==
    Cardinality({f \in {"security_level", "arguments", "sender"} :
        CASE f = "security_level" -> parse_security_level(line, None) # None
          [] f = "arguments" -> parse_arguments(line, <<>>) # Ok(<<>>)
          [] f = "sender" -> parse_sender(line, None) # None})

WireBadRequest == Str("SAORI/1.0 400 Bad Request\r\nCharset: UTF-8\r\n\r\n") \o <<0>>

\* C16: whatever set_result, set_value_at and set_values calls a response
\* built by new_bad_request has received, to_string returns the 400 text
\* and to_encoded_bytes its bytes.  (Checked under SpecBadRequest, which has
\* no set_status.)
C16_BadRequestText ==
    (last \in Serializers) =>
        /\ Unwrap(output).ok
        /\ Unwrap(output).data = WireBadRequest

\* C16 witness: a serialization of a response built by new_bad_request that
\* holds a result and a value.
C16_Witness ==
    /\ request = None
    /\ last \in Serializers
    /\ Unwrap(response).result # <<>>
    /\ \E i \in 1..Len(Unwrap(response).values) : Unwrap(response).values[i] # <<>>

\* What set_value_at(index, value) makes of the response r, as C17 has it:
\* q is the response afterwards.
ValueStoredAt(r, index, value, q) ==
    LET n == Len(r.values)
    IN  /\ Len(q.values) = IF n > index + 1 THEN n ELSE index + 1
        /\ q.values[index + 1] = value
        /\ \A j \in 0..(n - 1) : j # index => q.values[j + 1] = r.values[j + 1]
        /\ \A j \in n..(index - 1) : q.values[j + 1] = <<>>
        /\ q.result = r.result /\ q.charset = r.charset /\ q.version = r.version
        /\ q.status = IF r.status \in Sticky THEN r.status ELSE DerivedStatus(q)

\* C17: set_value_at(index, value) on a list of length n gives a list of
\* length max(n, index + 1) with value at index, the other positions below n
\* as they were and the positions from n up to index empty; result, charset
\* and version stay, and the status is recomputed unless it is BadRequest or
\* InternalServerError.  Stated of every index and value on every reachable
\* response, and of every set_value_at step.
C17_SetValueAt ==
    [][IsSome(response) =>
         /\ \A index \in 0..MaxValues, value \in ValueStrings :
               ValueStoredAt(Unwrap(response), index, value,
                             set_value_at(Unwrap(response), index, value))
         /\ last' = "set_value_at" =>
               \E index \in 0..(MaxValues - 1), value \in ValueStrings :
                   ValueStoredAt(Unwrap(response), index, value, Unwrap(response'))]_vars

\* C17 witness: set_value_at stored a value at index 1 behind an empty
\* string at index 0, and the status is OK.
C17_Witness ==
    /\ IsSome(response)
    /\ last = "set_value_at"
    /\ Len(Unwrap(response).values) = 2
    /\ Unwrap(response).values[1] = <<>>
    /\ Unwrap(response).values[2] # <<>>
    /\ Unwrap(response).result = <<>>
    /\ Unwrap(response).status = "OK"

\* The error the checks of the decoder give in the order C18 states, or None
\* when every check passes: the charset the buffer declares, the decoding
\* of the buffer in that charset, the first line (the command, then the
\* version), the Argument lines from the top (the separator, then the index).
FirstFailure(b) ==
    LET declared == DeclaredCharset(b)
        named == IF ~IsSome(declared) THEN {"ShiftJIS"}
                 ELSE {c \in DOMAIN WireCharsetName : WireCharsetName[c] = Unwrap(declared)}
    IN  IF named = {} THEN Some(<<"Charset", "UnsupportedCharset">>)
        ELSE LET d == decode(CHOOSE c \in named : TRUE, b)
                 ls == lines(d.text)
                 first == IF ls = <<>> THEN <<>> ELSE ls[1]
                 isGet == StartsWith(first, WireGetVersion)
                 isExecute == StartsWith(first, WireExecute)
                 rest == From(first, 1 + (IF isGet THEN Len(WireGetVersion)
                                          ELSE Len(WireExecute)))
                 malformed == {i \in ArgumentLines(ls) :
                                  LacksSeparator(ls[i]) \/ LacksIndex(ls[i])}
             IN  IF d.has_error THEN Some(<<"Charset", "DecodeFailed">>)
                 ELSE IF ls = <<>> THEN Some(<<"VersionLine", "EmptyRequest">>)
                 ELSE IF ~isGet /\ ~isExecute THEN Some(<<"VersionLine", "NoCommand">>)
                 ELSE IF rest # WireVersion THEN Some(<<"VersionLine", "NoVersion">>)
                 ELSE IF malformed = {} THEN None
                 ELSE IF LacksSeparator(ls[Min(malformed)])
                 THEN Some(<<"Argument", "InvalidSeparator">>)
                 ELSE Some(<<"Argument", "NoIndex">>)

\* C18: SaoriRequest::new fails exactly when one of the checks fails, and
\* with the error of the first failing check in this order: unsupported
\* charset, decoding, first line (command before version), Argument lines
\* top to bottom (separator before index).
C18_FirstFailureDecides ==
    IsSome(request) =>
        /\ Unwrap(request).ok <=> FirstFailure(bytes) = None
        /\ Unwrap(request).err = FirstFailure(bytes)

\* C18 witness: an unsupported charset, a rejected first line and a
\* malformed Argument line above the Charset line in one buffer, answered
\* UnsupportedCharset.
C18_Witness ==
    /\ IsSome(request)
    /\ Unwrap(request) = Err("Charset", "UnsupportedCharset")
    /\ LineAt(bytes, 1) \notin {WireGetVersion \o WireVersion, WireExecute \o WireVersion}
    /\ \E k \in LineStarts(bytes) :
          /\ k < Min(CharsetLines(bytes))
          /\ StartsWith(LineAt(bytes, k), WireArgument)
          /\ LacksSeparator(LineAt(bytes, k))

\* C19: to_encoded_bytes on a response built by new_bad_request and set to
\* InternalServerError succeeds and returns error_bytes(), whatever
\* set_result, set_value_at and set_values calls the response has received.
C19_ErrorBytes ==
    (last = "to_encoded_bytes" /\ Unwrap(response).status = "InternalServerError") =>
        /\ Unwrap(output).ok
        /\ Unwrap(output).data = error_bytes

\* C19 witness: such a response, holding a result and values, was encoded.
C19_Witness ==
    /\ last = "to_encoded_bytes"
    /\ Unwrap(response).status = "InternalServerError"
    /\ Unwrap(response).result # <<>>
    /\ Len(Unwrap(response).values) = 2
    /\ Unwrap(response).values[2] # <<>>
    /\ Unwrap(output).ok
====
